---- MODULE Spec2Model ----
\* The rustdoc "implementors" scripts of docs/implementors/**/trait.*.js and the
\* handshake they perform with the documentation viewer through the window
\* properties register_implementors and pending_implementors.
EXTENDS Integers, Sequences, FiniteSets, TLC

\* The number of script executions a behaviour is followed for.
MaxRuns == 3

\* The four files, named by the trait each lists.
Files == {"DerefMut", "TrySignature", "TrySignatureMut", "SetSignature"}

\* The crate keys the files assign.
Crates == {"identity_core", "identity_credential", "identity_did", "identity_iota"}

\* src/docs/implementors/core/ops/deref/trait.DerefMut.js, lines 2-5: the assignments implementors["<crate>"] = [...] in
\* source order; a text is the string literal, character by character.
Assignments_DerefMut ==
  <<
    [key |-> "identity_core", value |-> <<
         [text |-> <<"i","m","p","l"," ","D","e","r","e","f","M","u","t"," ","f","o","r"," ","U","r","l">>,
          synthetic |-> FALSE, types |-> <<>>],
         [text |-> <<"i","m","p","l"," ","D","e","r","e","f","M","u","t"," ","f","o","r"," ","S","i","g","n","a","t","u","r","e">>,
          synthetic |-> FALSE, types |-> <<>>],
         [text |-> <<"i","m","p","l"," ","D","e","r","e","f","M","u","t"," ","f","o","r"," ","S","i","g","n","a","t","u","r","e","V","a","l","u","e">>,
          synthetic |-> FALSE, types |-> <<>>] >>],
    [key |-> "identity_credential", value |-> <<
         [text |-> <<"i","m","p","l","&","l","t",";","T","&","g","t",";"," ","D","e","r","e","f","M","u","t"," ","f","o","r"," ","V","e","r","i","f","i","a","b","l","e","C","r","e","d","e","n","t","i","a","l","&","l","t",";","T","&","g","t",";">>,
          synthetic |-> FALSE, types |-> <<>>],
         [text |-> <<"i","m","p","l","&","l","t",";","T",","," ","U","&","g","t",";"," ","D","e","r","e","f","M","u","t"," ","f","o","r"," ","V","e","r","i","f","i","a","b","l","e","P","r","e","s","e","n","t","a","t","i","o","n","&","l","t",";","T",","," ","U","&","g","t",";">>,
          synthetic |-> FALSE, types |-> <<>>] >>],
    [key |-> "identity_did", value |-> <<
         [text |-> <<"i","m","p","l","&","l","t",";","T","&","g","t",";"," ","D","e","r","e","f","M","u","t"," ","f","o","r"," ","D","I","D","K","e","y","&","l","t",";","T","&","g","t",";">>,
          synthetic |-> FALSE, types |-> <<>>],
         [text |-> <<"i","m","p","l","&","l","t",";","T","&","g","t",";"," ","D","e","r","e","f","M","u","t"," ","f","o","r"," ","P","r","o","p","e","r","t","i","e","s","&","l","t",";","T","&","g","t",";">>,
          synthetic |-> FALSE, types |-> <<>>] >>],
    [key |-> "identity_iota", value |-> <<
         [text |-> <<"i","m","p","l","&","l","t",";","T","&","g","t",";"," ","D","e","r","e","f","M","u","t"," ","f","o","r"," ","M","e","s","s","a","g","e","I","n","d","e","x","&","l","t",";","T","&","g","t",";">>,
          synthetic |-> FALSE, types |-> <<>>] >>]
  >>

\* src/docs/implementors/identity_core/crypto/signature/traits/trait.TrySignature.js, lines 2-5: the assignments implementors["<crate>"] = [...] in
\* source order; a text is the string literal, character by character.
Assignments_TrySignature ==
  <<
    [key |-> "identity_core", value |-> << >>],
    [key |-> "identity_credential", value |-> <<
         [text |-> <<"i","m","p","l","&","l","t",";","T","&","g","t",";"," ","T","r","y","S","i","g","n","a","t","u","r","e"," ","f","o","r"," ","V","e","r","i","f","i","a","b","l","e","C","r","e","d","e","n","t","i","a","l","&","l","t",";","T","&","g","t",";">>,
          synthetic |-> FALSE, types |-> <<>>],
         [text |-> <<"i","m","p","l","&","l","t",";","T",","," ","U","&","g","t",";"," ","T","r","y","S","i","g","n","a","t","u","r","e"," ","f","o","r"," ","V","e","r","i","f","i","a","b","l","e","P","r","e","s","e","n","t","a","t","i","o","n","&","l","t",";","T",","," ","U","&","g","t",";">>,
          synthetic |-> FALSE, types |-> <<>>] >>],
    [key |-> "identity_did", value |-> <<
         [text |-> <<"i","m","p","l","&","l","t",";","T",","," ","U",","," ","V","&","g","t",";"," ","T","r","y","S","i","g","n","a","t","u","r","e"," ","f","o","r"," ","D","o","c","u","m","e","n","t","&","l","t",";","P","r","o","p","e","r","t","i","e","s","&","l","t",";","T","&","g","t",";",","," ","U",","," ","V","&","g","t",";">>,
          synthetic |-> FALSE, types |-> <<>>],
         [text |-> <<"i","m","p","l","&","l","t",";","T","&","g","t",";"," ","T","r","y","S","i","g","n","a","t","u","r","e"," ","f","o","r"," ","P","r","o","p","e","r","t","i","e","s","&","l","t",";","T","&","g","t",";">>,
          synthetic |-> FALSE, types |-> <<>>] >>],
    [key |-> "identity_iota", value |-> <<
         [text |-> <<"i","m","p","l"," ","T","r","y","S","i","g","n","a","t","u","r","e"," ","f","o","r"," ","I","o","t","a","D","o","c","u","m","e","n","t">>,
          synthetic |-> FALSE, types |-> <<>>],
         [text |-> <<"i","m","p","l"," ","T","r","y","S","i","g","n","a","t","u","r","e"," ","f","o","r"," ","D","o","c","u","m","e","n","t","D","i","f","f">>,
          synthetic |-> FALSE, types |-> <<>>] >>]
  >>

\* src/docs/implementors/identity_core/crypto/signature/traits/trait.TrySignatureMut.js, lines 2-5: the assignments implementors["<crate>"] = [...] in
\* source order; a text is the string literal, character by character.
Assignments_TrySignatureMut ==
  <<
    [key |-> "identity_core", value |-> << >>],
    [key |-> "identity_credential", value |-> <<
         [text |-> <<"i","m","p","l","&","l","t",";","T","&","g","t",";"," ","T","r","y","S","i","g","n","a","t","u","r","e","M","u","t"," ","f","o","r"," ","V","e","r","i","f","i","a","b","l","e","C","r","e","d","e","n","t","i","a","l","&","l","t",";","T","&","g","t",";">>,
          synthetic |-> FALSE, types |-> <<>>],
         [text |-> <<"i","m","p","l","&","l","t",";","T",","," ","U","&","g","t",";"," ","T","r","y","S","i","g","n","a","t","u","r","e","M","u","t"," ","f","o","r"," ","V","e","r","i","f","i","a","b","l","e","P","r","e","s","e","n","t","a","t","i","o","n","&","l","t",";","T",","," ","U","&","g","t",";">>,
          synthetic |-> FALSE, types |-> <<>>] >>],
    [key |-> "identity_did", value |-> <<
         [text |-> <<"i","m","p","l","&","l","t",";","T",","," ","U",","," ","V","&","g","t",";"," ","T","r","y","S","i","g","n","a","t","u","r","e","M","u","t"," ","f","o","r"," ","D","o","c","u","m","e","n","t","&","l","t",";","P","r","o","p","e","r","t","i","e","s","&","l","t",";","T","&","g","t",";",","," ","U",","," ","V","&","g","t",";">>,
          synthetic |-> FALSE, types |-> <<>>],
         [text |-> <<"i","m","p","l","&","l","t",";","T","&","g","t",";"," ","T","r","y","S","i","g","n","a","t","u","r","e","M","u","t"," ","f","o","r"," ","P","r","o","p","e","r","t","i","e","s","&","l","t",";","T","&","g","t",";">>,
          synthetic |-> FALSE, types |-> <<>>] >>],
    [key |-> "identity_iota", value |-> <<
         [text |-> <<"i","m","p","l"," ","T","r","y","S","i","g","n","a","t","u","r","e","M","u","t"," ","f","o","r"," ","D","o","c","u","m","e","n","t","D","i","f","f">>,
          synthetic |-> FALSE, types |-> <<>>],
         [text |-> <<"i","m","p","l"," ","T","r","y","S","i","g","n","a","t","u","r","e","M","u","t"," ","f","o","r"," ","D","o","c","u","m","e","n","t">>,
          synthetic |-> FALSE, types |-> <<>>] >>]
  >>

\* src/docs/implementors/identity_core/crypto/signature/traits/trait.SetSignature.js, lines 2-5: the assignments implementors["<crate>"] = [...] in
\* source order; a text is the string literal, character by character.
Assignments_SetSignature ==
  <<
    [key |-> "identity_core", value |-> << >>],
    [key |-> "identity_credential", value |-> <<
         [text |-> <<"i","m","p","l","&","l","t",";","T","&","g","t",";"," ","S","e","t","S","i","g","n","a","t","u","r","e"," ","f","o","r"," ","V","e","r","i","f","i","a","b","l","e","C","r","e","d","e","n","t","i","a","l","&","l","t",";","T","&","g","t",";">>,
          synthetic |-> FALSE, types |-> <<>>],
         [text |-> <<"i","m","p","l","&","l","t",";","T",","," ","U","&","g","t",";"," ","S","e","t","S","i","g","n","a","t","u","r","e"," ","f","o","r"," ","V","e","r","i","f","i","a","b","l","e","P","r","e","s","e","n","t","a","t","i","o","n","&","l","t",";","T",","," ","U","&","g","t",";">>,
          synthetic |-> FALSE, types |-> <<>>] >>],
    [key |-> "identity_did", value |-> <<
         [text |-> <<"i","m","p","l","&","l","t",";","T",","," ","U",","," ","V","&","g","t",";"," ","S","e","t","S","i","g","n","a","t","u","r","e"," ","f","o","r"," ","D","o","c","u","m","e","n","t","&","l","t",";","P","r","o","p","e","r","t","i","e","s","&","l","t",";","T","&","g","t",";",","," ","U",","," ","V","&","g","t",";">>,
          synthetic |-> FALSE, types |-> <<>>],
         [text |-> <<"i","m","p","l","&","l","t",";","T","&","g","t",";"," ","S","e","t","S","i","g","n","a","t","u","r","e"," ","f","o","r"," ","P","r","o","p","e","r","t","i","e","s","&","l","t",";","T","&","g","t",";">>,
          synthetic |-> FALSE, types |-> <<>>] >>],
    [key |-> "identity_iota", value |-> <<
         [text |-> <<"i","m","p","l"," ","S","e","t","S","i","g","n","a","t","u","r","e"," ","f","o","r"," ","I","o","t","a","D","o","c","u","m","e","n","t">>,
          synthetic |-> FALSE, types |-> <<>>],
         [text |-> <<"i","m","p","l"," ","S","e","t","S","i","g","n","a","t","u","r","e"," ","f","o","r"," ","D","o","c","u","m","e","n","t","D","i","f","f">>,
          synthetic |-> FALSE, types |-> <<>>] >>]
  >>

\* Lines 2-5 of the file named by trait f.
FileLines(f) ==
  CASE f = "DerefMut" -> Assignments_DerefMut
    [] f = "TrySignature" -> Assignments_TrySignature
    [] f = "TrySignatureMut" -> Assignments_TrySignatureMut
    [] f = "SetSignature" -> Assignments_SetSignature

\* The text with every HTML-escaped angle bracket written raw.
RECURSIVE Unescape(_)
Unescape(s) ==
  IF s = << >> THEN << >>
  ELSE IF Len(s) >= 4 /\ SubSeq(s, 1, 4) = <<"&","l","t",";">>
         THEN <<"<">> \o Unescape(SubSeq(s, 5, Len(s)))
  ELSE IF Len(s) >= 4 /\ SubSeq(s, 1, 4) = <<"&","g","t",";">>
         THEN <<">">> \o Unescape(SubSeq(s, 5, Len(s)))
  ELSE <<Head(s)>> \o Unescape(Tail(s))

\* Mutant: the generator forgets to escape the angle brackets of a text.
AssignmentsUnescaped(f) ==
  [i \in DOMAIN FileLines(f) |->
     [key |-> FileLines(f)[i].key,
      value |-> [j \in DOMAIN FileLines(f)[i].value |->
                   [FileLines(f)[i].value[j] EXCEPT !.text = Unescape(@)]]]]

\* Mutant: the second assignment repeats the key of the first.
AssignmentsDupKey(f) ==
  [i \in DOMAIN FileLines(f) |->
     IF i = 2 THEN [FileLines(f)[i] EXCEPT !.key = FileLines(f)[1].key]
              ELSE FileLines(f)[i]]

\* The assignments the script of trait f makes to implementors, in order.
Assignments(f) == FileLines(f)

\* obj[key] = value on a JavaScript object: adds the key, or overwrites it.
SetProperty(obj, key, value) ==
  [k \in (DOMAIN obj) \cup {key} |-> IF k = key THEN value ELSE obj[k]]

\* The local variable implementors after line 1 and the first n assignments.
RECURSIVE ImplementorsAfter(_, _)
ImplementorsAfter(f, n) ==
  IF n = 0
    THEN [k \in {} |-> << >>]
    ELSE SetProperty(ImplementorsAfter(f, n - 1),
                     Assignments(f)[n].key, Assignments(f)[n].value)

\* Mutant: the handshake runs before the last assignment.
TableBeforeLast(f) == ImplementorsAfter(f, Len(Assignments(f)) - 1)

\* The value of implementors when line 6 runs: every assignment has been made.
Table(f) == ImplementorsAfter(f, Len(Assignments(f)))

\* A window property that may be unset: << >> is undefined, <<v>> is the value v.
Undefined == << >>
Some(v) == <<v>>

\* The values window.register_implementors is followed over: unset, a falsy
\* value, a truthy value that is not callable (for instance the element a page
\* exposes under that id), and the function the viewer installs.
RegValues == {"undefined", "null", "object", "function"}

\* ToBoolean, as the if of line 6 applies it to window.register_implementors.
Truthy(v) == v \in {"object", "function"}

\* Whether the call window.register_implementors(...) has something to call.
Callable(v) == v = "function"

\* Mutant: the script stashes whatever register_implementors holds.
BranchAlwaysStash(reg) == "stashed"

\* Mutant: the script calls register_implementors without testing it.
BranchNoGuard(reg) == IF Callable(reg) THEN "called" ELSE "threw"

\* Line 6: which way the script goes for a value of register_implementors.
\* Calling a truthy value that is not a function throws a TypeError.
Branch(reg) ==
  IF Truthy(reg)
    THEN IF Callable(reg) THEN "called" ELSE "threw"
    ELSE "stashed"

\* Mutant: the first stashed table is kept.
StashKeepFirst(pending, implementors) ==
  IF pending = Undefined THEN Some(implementors) ELSE pending

\* Mutant: a table is appended to the one already stashed.
StashMerge(pending, implementors) ==
  IF pending = Undefined
    THEN Some(implementors)
    ELSE Some([c \in DOMAIN implementors |->
                 (IF c \in DOMAIN pending[1] THEN pending[1][c] ELSE << >>)
                   \o implementors[c]])

\* Line 6, else branch: window.pending_implementors = implementors.
Stash(pending, implementors) == Some(implementors)

VARIABLES
  register_implementors,  \* window.register_implementors, a member of RegValues
  pending_implementors,   \* window.pending_implementors, Undefined or Some(table)
  viewer,                 \* the viewer script: "absent", "installed", "done"
  calls,                  \* the arguments the viewer's callback received, in order
  runs                    \* the script executions so far, in order

vars == <<register_implementors, pending_implementors, viewer, calls, runs>>

\* A page before any script ran; register_implementors holds whatever the page
\* put there, the viewer's function excepted.
Init ==
  /\ register_implementors \in RegValues \ {"function"}
  /\ pending_implementors = Undefined
  /\ viewer = "absent"
  /\ calls = << >>
  /\ runs = << >>

\* A page on which only the viewer ever sets register_implementors.
InitPage ==
  /\ register_implementors = "undefined"
  /\ pending_implementors = Undefined
  /\ viewer = "absent"
  /\ calls = << >>
  /\ runs = << >>

\* One execution of the file of trait f, lines 1-6, run to completion.
RunScript(f) ==
  LET implementors == Table(f)
      outcome == Branch(register_implementors)
  IN /\ Len(runs) < MaxRuns
     /\ calls' = IF outcome = "called"
                   THEN Append(calls, [arg |-> implementors, by |-> "script"])
                   ELSE calls
     /\ pending_implementors' =
          IF outcome = "stashed"
            THEN Stash(pending_implementors, implementors)
            ELSE pending_implementors
     /\ runs' = Append(runs, [file |-> f,
                              saw |-> register_implementors,
                              outcome |-> outcome,
                              arg |-> IF outcome = "called"
                                        THEN Some(implementors) ELSE Undefined,
                              before |-> pending_implementors,
                              after |-> pending_implementors'])
     /\ UNCHANGED <<register_implementors, viewer>>

\* The viewer sets window.register_implementors to its function.
ViewerInstall ==
  /\ viewer = "absent"
  /\ register_implementors' = "function"
  /\ viewer' = "installed"
  /\ UNCHANGED <<pending_implementors, calls, runs>>

\* The viewer then passes window.pending_implementors, if set, to that function.
ViewerConsume ==
  /\ viewer = "installed"
  /\ calls' = IF pending_implementors # Undefined
                THEN Append(calls, [arg |-> pending_implementors[1], by |-> "viewer"])
                ELSE calls
  /\ viewer' = "done"
  /\ UNCHANGED <<register_implementors, pending_implementors, runs>>

Next ==
  \/ \E f \in Files : RunScript(f)
  \/ ViewerInstall
  \/ ViewerConsume

Spec == Init /\ [][Next]_vars

SpecPage == InitPage /\ [][Next]_vars

\* ---------------------------------------------------------------------------
\* Properties of the handshake.

\* A step that is one script execution.
IsRun == Len(runs') = Len(runs) + 1

\* The file the step's script execution ran.
RunFile == runs'[Len(runs')].file

\* The array the file of trait f assigns to crate c, read off its lines.
CrateArray(f, c) ==
  Assignments(f)[CHOOSE i \in DOMAIN Assignments(f) : Assignments(f)[i].key = c].value

\* The table with all four crate keys assigned as the file of trait f assigns them.
Complete(f) == [c \in Crates |-> CrateArray(f, c)]

\* C1 as stated: every script execution that finds register_implementors truthy
\* invokes the callback exactly once, with the script's complete table of four
\* crate keys; every other execution sets pending_implementors to that table
\* and invokes no callback.
C1_Handshake ==
  [][IsRun =>
       IF Truthy(register_implementors)
         THEN calls' = Append(calls, [arg |-> Complete(RunFile), by |-> "script"])
         ELSE /\ pending_implementors' = Some(Complete(RunFile))
              /\ calls' = calls]_vars

\* C1 as amended: an execution that finds a function in register_implementors
\* invokes it exactly once with the script's complete table; one that finds a
\* falsy value sets pending_implementors to that table and invokes nothing; one
\* that finds a truthy value that is no function invokes nothing and stashes
\* nothing.
C1_HandshakeCallable ==
  [][IsRun =>
       CASE Callable(register_implementors) ->
              calls' = Append(calls, [arg |-> Complete(RunFile), by |-> "script"])
         [] ~Truthy(register_implementors) ->
              /\ pending_implementors' = Some(Complete(RunFile))
              /\ calls' = calls
         [] OTHER ->
              /\ pending_implementors' = pending_implementors
              /\ calls' = calls]_vars

\* A script stashed its table and a later one handed its table to the callback.
C1_Witness ==
  \E i, j \in DOMAIN runs :
    /\ i < j
    /\ runs[i].outcome = "stashed"
    /\ runs[j].outcome = "called"
    /\ \E k \in DOMAIN calls :
         calls[k] = [arg |-> Complete(runs[j].file), by |-> "script"]

\* The executions that stashed their table.
Stashed == {i \in DOMAIN runs : runs[i].outcome = "stashed"}

\* The largest member of a non-empty set of numbers.
Max(S) == CHOOSE m \in S : \A n \in S : n <= m

\* C2 as stated: before the viewer installs register_implementors, the table of
\* every script that stashed one is still held by the pending state.
C2_Queue ==
  viewer = "absent" =>
    \A i \in Stashed :
      /\ pending_implementors # Undefined
      /\ pending_implementors[1] = Table(runs[i].file)

\* C2 as amended: the pending state is one slot; it holds the table of the
\* script that stashed last and nothing of the earlier ones, and it is unset
\* as long as no script stashed.
C2_LastStashWins ==
  IF Stashed = {}
    THEN pending_implementors = Undefined
    ELSE pending_implementors = Some(Table(runs[Max(Stashed)].file))

\* Two different files stashed before the viewer loaded; the slot holds the
\* second table and not the first.
C2_Witness ==
  /\ viewer = "absent"
  /\ Cardinality(Stashed) >= 2
  /\ \E i \in Stashed :
       /\ i < Max(Stashed)
       /\ Table(runs[i].file) # Table(runs[Max(Stashed)].file)
       /\ pending_implementors # Some(Table(runs[i].file))
  /\ pending_implementors = Some(Table(runs[Max(Stashed)].file))

C4_NoWindowWrite ==
  [][IsRun =>
       /\ register_implementors' = register_implementors
       /\ pending_implementors' = pending_implementors]_vars

\* C4 as amended: a script execution never writes register_implementors; it
\* leaves pending_implementors as it was when register_implementors is truthy,
\* and sets pending_implementors when it is not.
C4_Frame ==
  [][IsRun =>
       /\ register_implementors' = register_implementors
       /\ Truthy(register_implementors) =>
            pending_implementors' = pending_implementors
       /\ ~Truthy(register_implementors) =>
            pending_implementors' # Undefined]_vars

\* One execution changed pending_implementors, a later one found it set and
\* the callback installed and left it alone.
C4_Witness ==
  \E i, j \in DOMAIN runs :
    /\ i < j
    /\ ~Truthy(runs[i].saw)
    /\ runs[i].before # runs[i].after
    /\ runs[j].saw = "function"
    /\ runs[j].before # Undefined
    /\ runs[j].before = runs[j].after

Given(i) == IF runs[i].outcome = "called" THEN runs[i].arg ELSE runs[i].after

\* C9: two executions of the same script that stash leave pending_implementors
\* with the same content, and what an execution stashes or delivers is the same
\* whatever pending_implementors held before it.
C9_Idempotent ==
  \A i, j \in DOMAIN runs :
    /\ runs[i].file = runs[j].file
    /\ runs[i].outcome # "threw"
    /\ runs[j].outcome # "threw"
    => Given(i) = Given(j)

\* The same script stashed twice in a row, the first time into an unset slot
\* and the second time over a set one, and the slot holds what the first left.
C9_Witness ==
  /\ register_implementors \in {"undefined", "null"}
  /\ \E i \in DOMAIN runs :
       /\ i + 1 \in DOMAIN runs
       /\ runs[i].file = runs[i + 1].file
       /\ runs[i].outcome = "stashed"
       /\ runs[i + 1].outcome = "stashed"
       /\ runs[i].before # runs[i + 1].before
       /\ pending_implementors = runs[i].after

\* ---------------------------------------------------------------------------
\* Properties of the listings.

\* The name of trait f, character by character.
TraitChars(f) ==
  CASE f = "DerefMut" -> <<"D","e","r","e","f","M","u","t">>
    [] f = "TrySignature" -> <<"T","r","y","S","i","g","n","a","t","u","r","e">>
    [] f = "TrySignatureMut" -> <<"T","r","y","S","i","g","n","a","t","u","r","e","M","u","t">>
    [] f = "SetSignature" -> <<"S","e","t","S","i","g","n","a","t","u","r","e">>

KwImpl == <<"i","m","p","l">>
KwFor == <<" ","f","o","r"," ">>
EscLt == <<"&","l","t",";">>
EscGt == <<"&","g","t",";">>

\* Whether s starts with p.
IsPrefix(p, s) == Len(p) <= Len(s) /\ SubSeq(s, 1, Len(p)) = p

\* The part of s from position i on.
From(s, i) == SubSeq(s, i, Len(s))

\* The first position from i on at which pat occurs in s, or 0.
RECURSIVE Find(_, _, _)
Find(pat, s, i) ==
  IF i + Len(pat) - 1 > Len(s) THEN 0
  ELSE IF SubSeq(s, i, i + Len(pat) - 1) = pat THEN i
  ELSE Find(pat, s, i + 1)

\* A text read as 'impl[<generics>] <Trait> for <Type>', the generics between
\* an escaped '<' right after impl and the first escaped '>'.
Parse(text) ==
  LET r1 == From(text, Len(KwImpl) + 1)
      hasGen == IsPrefix(EscLt, r1)
      gEnd == IF hasGen THEN Find(EscGt, r1, Len(EscLt) + 1) ELSE 0
      r2 == IF hasGen THEN From(r1, gEnd + Len(EscGt)) ELSE r1
      r3 == From(r2, 2)
      at == Find(KwFor, r3, 1)
  IN [ok |-> /\ IsPrefix(KwImpl, text)
             /\ hasGen => gEnd > Len(EscLt) + 1
             /\ IsPrefix(<<" ">>, r2)
             /\ at > 1
             /\ at + Len(KwFor) <= Len(r3),
      generics |-> IF hasGen /\ gEnd > 0
                     THEN SubSeq(r1, Len(EscLt) + 1, gEnd - 1) ELSE << >>,
      trait |-> IF at > 0 THEN SubSeq(r3, 1, at - 1) ELSE << >>,
      type |-> IF at > 0 THEN From(r3, at + Len(KwFor)) ELSE << >>]

\* A descriptor of the listing of trait f as the claim's text requires it.
WellFormed(e, f) ==
  /\ DOMAIN e = {"text", "synthetic", "types"}
  /\ e.synthetic = FALSE
  /\ e.types = << >>
  /\ \A i \in DOMAIN e.text : e.text[i] \notin {"<", ">"}
  /\ Parse(e.text).ok
  /\ Parse(e.text).trait = TraitChars(f)

\* C5: in every file that ran, the assignments name each of the four crates
\* exactly once, so the table has exactly the four keys and under each the
\* array its own assignment gave it.
C5_UniqueKeys ==
  \A f \in {runs[r].file : r \in DOMAIN runs} :
    /\ Len(Assignments(f)) = Cardinality(Crates)
    /\ \A c \in Crates :
         Cardinality({i \in DOMAIN Assignments(f) : Assignments(f)[i].key = c}) = 1
    /\ DOMAIN Table(f) = Crates
    /\ \A i \in DOMAIN Assignments(f) :
         Table(f)[Assignments(f)[i].key] = Assignments(f)[i].value

\* A stashed table has the four keys, and the empty array its first assignment
\* made is still there after the three later ones.
C5_Witness ==
  /\ pending_implementors # Undefined
  /\ DOMAIN pending_implementors[1] = Crates
  /\ pending_implementors[1]["identity_core"] = << >>
  /\ \A c \in Crates \ {"identity_core"} : Len(pending_implementors[1][c]) = 2

\* C7: every entry of every crate array of every file that ran has exactly the fields
\* text, synthetic and types, with synthetic false, types empty, no raw angle
\* bracket in text, and text of the shape 'impl[<generics>] <Trait> for <Type>'
\* whose trait is the one the file is named after.
C7_WellFormed ==
  \A f \in {runs[r].file : r \in DOMAIN runs} :
    \A c \in DOMAIN Table(f) : \A i \in DOMAIN Table(f)[c] :
      WellFormed(Table(f)[c][i], f)

\* The callback received a table holding an entry with three generic
\* parameters, an escaped type and the file's trait.
C7_Witness ==
  \E k \in DOMAIN calls : \E r \in DOMAIN runs :
    /\ calls[k].arg = Table(runs[r].file)
    /\ LET e == calls[k].arg["identity_did"][1]
       IN /\ WellFormed(e, runs[r].file)
          /\ Parse(e.text).generics = <<"T",","," ","U",","," ","V">>
          /\ IsPrefix(<<"D","o","c","u","m","e","n","t","&","l","t",";">>, Parse(e.text).type)

\* The implementing types the file of trait f lists for crate c.
Types(f, c) == {Parse(Table(f)[c][i].text).type : i \in DOMAIN Table(f)[c]}

\* The files of the three signature traits.
SignatureFiles == {"TrySignatureMut", "TrySignature", "SetSignature"}

\* C8: for each crate, any two of the listings of TrySignatureMut, TrySignature
\* and SetSignature that ran name the same set of implementing types.
C8_ListingsAgree ==
  \A i, j \in DOMAIN runs :
    runs[i].file \in SignatureFiles /\ runs[j].file \in SignatureFiles =>
      \A c \in Crates : Types(runs[i].file, c) = Types(runs[j].file, c)

====
